---- MODULE Spec2Model ----
(***************************************************************************)
(* Model of ionize's two numerical kernels:                                *)
(*   - Solution/calc_pH.py : the charge-balance polynomial and its root    *)
(*   - Ion/mobility.py     : actual / Robinson-Stokes / Onsager-Fuoss      *)
(*                           mobility and the interaction ensemble         *)
(*                                                                         *)
(* Real numbers are exact rationals.  Every input quantity (an entry of    *)
(* L(I), a concentration, Kw_eff) is the integer  x * Den ; a product of k *)
(* inputs therefore carries the denominator Den^k.  Both P and Q of        *)
(* calc_pH are homogeneous of degree n+1 in the inputs (n = number of      *)
(* ions), so both are numerators over Scale = Den^(n+1).                   *)
(***************************************************************************)
EXTENDS FiniteSets, Integers, Sequences, TLC

VARIABLES
    pc,        \* position / outcome of the call being modelled
    obj,       \* calc_pH: the Solution (ions, concentrations, Kw_eff(I))
    P,         \* calc_pH: P after the padding step (line 63)
    Q,         \* calc_pH: Q after the padding step, 2-D (a list of rows)
    poly,      \* calc_pH: the list handed to numpy.roots (line 76)
    roo,       \* calc_pH: output of numpy.roots (line 79)
    cH,        \* calc_pH: the selected root (line 80)
    context,   \* mobility: <<>> or <<the Solution the ions are nested in>>
    immobile,  \* mobility: <<>> or <<ion, j>>, a non-mobile charge state
    call,      \* mobility: the entry point called and its arguments
    ret        \* mobility: the outcome of the call

calcVars == <<obj, P, Q, poly, roo, cH>>

mobVars == <<context, immobile, call, ret>>

vars == <<pc, obj, P, Q, poly, roo, cH, context, immobile, call, ret>>

----------------------------------------------------------------------------
(* Bounds *)

\* resolution of the rational inputs: every input is a multiple of 1/Den
Den == 2
\* largest number of ions in a Solution handed to calc_pH
MaxIons == 3
\* longest coefficient list handed to the root solver in SpecRoots
MaxPolyLen == 3
\* number of distinct ions a Solution of SpecMob is built from
NumUserIons == 3

----------------------------------------------------------------------------
(* Generic helpers *)

Max(S) == CHOOSE x \in S : \A y \in S : y <= x

Min(S) == CHOOSE x \in S : \A y \in S : x <= y

RECURSIVE Pow(_, _)
Pow(b, e) == IF e = 0 THEN 1 ELSE b * Pow(b, e - 1)

RECURSIVE SumTo(_, _)
\* sum of f[1..n]
SumTo(f, n) == IF n = 0 THEN 0 ELSE f[n] + SumTo(f, n - 1)

Zeros(n) == [k \in 1..n |-> 0]

Reverse(s) == [k \in 1..Len(s) |-> s[Len(s) + 1 - k]]

RECURSIVE ConvSum(_, _, _, _)
\* sum over i' >= i of a[i'] * b[k+1-i'], the k-th entry of a convolution
ConvSum(a, b, k, i) ==
    IF i > Len(a) \/ i > k THEN 0
    ELSE (IF k + 1 - i <= Len(b) THEN a[i] * b[k + 1 - i] ELSE 0)
            + ConvSum(a, b, k, i + 1)

\* numpy.convolve(a0, b0), mode 'full': length Len(a0)+Len(b0)-1
\* (the singleton-set binding evaluates each argument once)
Convolve(a0, b0) ==
    CHOOSE c \in
        {[k \in 1..(Len(a) + Len(b) - 1) |-> ConvSum(a, b, k, 1)] :
            a \in {a0}, b \in {b0}} : TRUE

\* rounding toward zero of the rational x/s, as a float -> int64 cast does
TruncDiv(x, s) == IF x >= 0 THEN x \div s ELSE -((-x) \div s)

\* the mobility variables while calc_pH is the call being modelled
MobIdle ==
    /\ context = <<>>
    /\ immobile = <<>>
    /\ call = [api |-> "none"]
    /\ ret = [kind |-> "none"]

----------------------------------------------------------------------------
(* Solution/calc_pH.py *)

RECURSIVE SortedInsert(_, _)
SortedInsert(s, x) ==
    IF s = <<>> THEN <<x>>
    ELSE IF x <= Head(s) THEN <<x>> \o s
    ELSE <<Head(s)>> \o SortedInsert(Tail(s), x)

\* Ion.z0(): the charge states of the ion, the neutral state included
Z0(ion) == SortedInsert(ion.z, 0)

SeqRange(s) == {s[k] : k \in 1..Len(s)}

\* line 18; fails on an empty ion list (max of an empty list)
MaxCol(o) ==
    Max({Max(SeqRange(o.ions[i].z)) - Min(SeqRange(o.ions[i].z)) + 2 :
            i \in 1..Len(o.ions)})

\* lines 22-25: one row per ion, L(I) followed by zeros
LMat(o) ==
    [i \in 1..Len(o.ions) |->
        [k \in 1..MaxCol(o) |->
            IF k <= Len(o.ions[i].z) + 1 THEN o.ions[i].L[k] ELSE 0]]

RECURSIVE ConvolveRows(_, _)
\* the loops of lines 28-30 and 46-48: start from 1, convolve row by row
ConvolveRows(M, k) ==
    IF k = 0 THEN <<1>> ELSE Convolve(ConvolveRows(M, k - 1), M[k])

\* line 33: the water dissociation term [-Kw_eff(I), 0, 1]
WaterTerm(o) == <<-o.Kw, 0, Den>>

\* lines 28-34: Q as a 2-D array of one row
QMat(o) ==
    CHOOSE q \in
        {<<Convolve(ConvolveRows(M, Len(o.ions)), WaterTerm(o))>> :
            M \in {LMat(o)}} : TRUE

\* lines 39-44: LMat with row i scaled by the charges z0 (zero padded)
Mmod(o, i) ==
    CHOOSE m \in
        {[M EXCEPT ![i] = [k \in 1..Len(M[i]) |->
                              M[i][k] * (IF k <= Len(zl) THEN zl[k] ELSE 0)]] :
            M \in {LMat(o)}, zl \in {Z0(o.ions[i])}} : TRUE

\* lines 46-50
Pi(o, i) ==
    CHOOSE c \in
        {Convolve(<<0, 1>>, ConvolveRows(M, Len(o.ions))) :
            M \in {Mmod(o, i)}} : TRUE

\* lines 37-53
PMat(o) == [i \in 1..Len(o.concentrations) |-> Pi(o, i)]

\* lines 56-58: rows of PM weighted by the concentrations, summed over ions
PSum(o, PM) ==
    [k \in 1..Len(PM[1]) |->
        SumTo([i \in 1..Len(PM) |-> PM[i][k] * o.concentrations[i]], Len(PM))]

\* line 61: Q.shape[1] - PMat.shape[1]
SizeDiff(q, PM) == Len(q[1]) - Len(PM[1])

\* PadP without the padding: P keeps its length
PadPNone(p, d) == p

\* lines 62-63: P = list(P) + [0]*SizeDiff   (a list times n <= 0 is empty)
PadP(p, d) == IF d > 0 THEN p \o Zeros(d) ELSE p

\* lines 64-65: Q = list(Q) + [0]*SizeDiff   (list(Q) is the list of rows)
PadQ(q, d) == IF d > 0 THEN q ELSE IF d < 0 THEN q \o Zeros(d) ELSE q

\* the denominator shared by the coefficients of P and Q
Scale(o) == Pow(Den, Len(o.ions) + 1)

\* numpy.add(arr[0:n], v) stored back into arr[0:n], arr an int64 array and
\* v floats over s: the sum is cast to int64 on the store
AddInto(arr, n, v, s) ==
    [k \in 1..Len(arr) |->
        IF k <= n THEN TruncDiv(arr[k] * s + v[k], s) ELSE arr[k]]

\* lines 68-72: the working array, accumulating P and then Q
PolyArray(o, p, q) ==
    CHOOSE r \in
        {AddInto(poly1, Min({Len(q[1]) + 1, Len(poly1)}), q[1], s) :
            poly1 \in {AddInto(Zeros(Max({Len(p), Len(q)})),
                               Min({Len(p) + 1, Max({Len(p), Len(q)})}),
                               p, Scale(o))},
            s \in {Scale(o)}} : TRUE

\* calc_pH on a Solution without ions: line 18 raises
CalcPHNoIons ==
    /\ pc = "start"
    /\ Len(obj.ions) = 0
    /\ pc' = "ValueError"
    /\ UNCHANGED <<obj, P, Q, poly, roo, cH, mobVars>>

\* calc_pH, lines 16-76: up to the list handed to the root solver
CalcPHPoly ==
    /\ pc = "start"
    /\ Len(obj.ions) > 0
    /\ \E q0 \in {QMat(obj)}, PM \in {PMat(obj)} :
       \E p \in {PadP(PSum(obj, PM), SizeDiff(q0, PM))} :
       \E q \in {PadQ(q0, SizeDiff(q0, PM))} :
       \E a \in {PolyArray(obj, p, q)} :
          /\ P' = p
          /\ Q' = q
          /\ poly' = Reverse(a)
    /\ pc' = "solve"
    /\ UNCHANGED <<obj, roo, cH, mobVars>>

\* the charge-state lists of the ions a Solution is built from
ZLists == {<<-1>>, <<1>>, <<-2, -1>>, <<-1, 1>>}

\* values of the non-neutral entries of L(I), over Den
LVals == {1, 3}

\* concentrations, over Den
ConcVals == {0, 3}

\* Kw_eff(I), over Den
KwVals == {1}

LFor(z, a) ==
    LET zl == SortedInsert(z, 0)
    IN  [k \in 1..Len(zl) |-> IF zl[k] = 0 THEN Den ELSE a]

IonSet == {[z |-> z, L |-> LFor(z, a)] : z \in ZLists, a \in LVals}

\* a Solution of n ions: the ion list and the parallel concentrations
IsSolution(o, n) ==
    \E io \in [1..n -> IonSet], co \in [1..n -> ConcVals], kw \in KwVals :
        o = [ions |-> io, concentrations |-> co, Kw |-> kw]

InitPH ==
    /\ pc = "start"
    /\ \E n \in 0..MaxIons : IsSolution(obj, n)
    /\ P = <<>>
    /\ Q = <<>>
    /\ poly = <<>>
    /\ roo = <<>>
    /\ cH = <<0, 0>>
    /\ MobIdle

NextPH == CalcPHNoIons \/ CalcPHPoly

SpecPH == InitPH /\ [][NextPH]_vars

----------------------------------------------------------------------------
(* Solution/calc_pH.py, lines 78-83: the root solver and the root chosen *)

\* coefficients of the integer lists handed to the solver in SpecRoots
CoefVals == {-1, 0, 1}

\* the non-zero complex values <<re, im>> the solver may report
RootVals == {<<1, 0>>, <<2, 0>>, <<-1, 0>>, <<1, 1>>, <<0, 1>>}

\* numpy.roots(p), p in descending powers: the possible outputs.  Leading
\* and trailing zeros are stripped, the N-1 eigenvalues of the companion
\* matrix of the N remaining coefficients come first (none of them is zero,
\* the constant term being non-zero), one exact zero per stripped trailing
\* zero follows.  An all-zero list has no roots.
NumpyRoots(p) ==
    LET nz == {k \in 1..Len(p) : p[k] # 0}
    IN  IF nz = {} THEN {<<>>}
        ELSE {r \o [k \in 1..(Len(p) - Max(nz)) |-> <<0, 0>>] :
                r \in [1..(Max(nz) - Min(nz)) -> RootVals]}

\* Qualifies with r >= 0 in place of r > 0
QualifiesNonStrict(r) == (r[1] > 0 \/ (r[1] = 0 /\ r[2] >= 0)) /\ r[2] = 0

\* line 80: r > 0 and r.imag == 0   (numpy orders complex numbers
\* lexicographically, real part first)
Qualifies(r) == (r[1] > 0 \/ (r[1] = 0 /\ r[2] > 0)) /\ r[2] = 0

\* line 80: the list comprehension
Candidates(rs) == SelectSeq(rs, Qualifies)

\* calc_pH, lines 78-83: solve, take the first candidate, convert to pH
\* (pH = -log10(cH * gamma) is a function of cH alone; cH is kept)
SolveRoots ==
    /\ pc = "solve"
    /\ \E rs \in NumpyRoots(poly) :
        /\ roo' = rs
        /\ IF Candidates(rs) = <<>>
           THEN pc' = "IndexError" /\ cH' = cH
           ELSE pc' = "done" /\ cH' = <<Head(Candidates(rs))[1], 0>>
    /\ UNCHANGED <<obj, P, Q, poly, mobVars>>

InitRoots ==
    /\ pc = "solve"
    /\ obj = [ions |-> <<>>, concentrations |-> <<>>, Kw |-> 0]
    /\ P = <<>>
    /\ Q = <<>>
    /\ \E n \in 1..MaxPolyLen : poly \in [1..n -> CoefVals]
    /\ roo = <<>>
    /\ cH = <<0, 0>>
    /\ MobIdle

NextRoots == SolveRoots

SpecRoots == InitRoots /\ [][NextRoots]_vars

----------------------------------------------------------------------------
(* Properties of calc_pH *)

\* C4: calc_pH on a Solution without ions returns a pH instead of failing.
C4_PureWaterReturns == Len(obj.ions) = 0 => pc # "ValueError"

\* C5: after the padding step P and Q hold the same number of coefficients
\* when they are summed into the polynomial.
C5_EqualLength == pc = "solve" => Len(P) = Len(Q[1])

C5_Witness ==
    /\ pc = "solve"
    /\ Len(obj.ions) = 3
    /\ \E i, j \in 1..3 : Len(obj.ions[i].z) # Len(obj.ions[j].z)
    /\ Len(P) = Len(Q[1])

\* degree of a coefficient list in descending powers (-1 for the zero list)
Degree(p) ==
    LET nz == {k \in 1..Len(p) : p[k] # 0}
    IN  IF nz = {} THEN -1 ELSE Len(p) - Min(nz)

\* the degree span of an ion: the degree of its own polynomial L
Span(ion) == Len(Z0(ion)) - 1

\* C6: the degree of the combined polynomial is the sum of the ions' degree
\* spans plus 2.
C6_Degree ==
    pc = "solve" =>
        Degree(poly) =
            SumTo([i \in 1..Len(obj.ions) |-> Span(obj.ions[i])],
                  Len(obj.ions)) + 2

\* C9: every coefficient of the list handed to the root solver is exactly
\* the sum of the coefficients of P and Q for the same power.
C9_ExactSum ==
    pc = "solve" =>
        \A k \in 1..Len(poly) :
            poly[Len(poly) + 1 - k] * Scale(obj) = P[k] + Q[1][k]

IsPositiveReal(r) == r[2] = 0 /\ r[1] > 0

\* C8: the hydrogen-ion concentration is the first root, in the solver's
\* order, that is real and strictly positive; without such a root calc_pH
\* fails with an index error.
C8_RootSelection ==
    /\ pc \in {"solve", "done", "IndexError"}
    /\ pc = "done" =>
        \E i \in 1..Len(roo) :
            /\ cH = roo[i]
            /\ IsPositiveReal(roo[i])
            /\ \A j \in 1..(i - 1) : ~IsPositiveReal(roo[j])
    /\ pc = "IndexError" => \A i \in 1..Len(roo) : ~IsPositiveReal(roo[i])

C8_Witness ==
    /\ pc = "done"
    /\ \E i, j \in 1..Len(roo) :
        i < j /\ IsPositiveReal(roo[i]) /\ IsPositiveReal(roo[j])
              /\ roo[i] # roo[j] /\ cH = roo[i]

----------------------------------------------------------------------------
(* Ion/mobility.py *)

\* An optional argument is <<>> (None) or <<v>>.
\* A mobility is a vector with one entry per entry of Ion.valence.  Absolute
\* mobilities are integers (in units of 10.35e-11 times the mobility unit).
\* A corrected mobility is kept as the record of the quantities its closed
\* form is evaluated on: two such records are equal exactly when the same
\* formula is applied to the same numbers.

Hydroxide == [kind |-> "hydroxide", id |-> 0]

Hydronium == [kind |-> "hydronium", id |-> 0]

UserIons == {[kind |-> "ion", id |-> i] : i \in 1..NumUserIons}

AllIons == UserIons \cup {Hydroxide, Hydronium}

\* Ion.valence: the non-zero charge states of the ion
Valence(ion) ==
    IF ion = Hydroxide THEN <<-1>>
    ELSE IF ion = Hydronium THEN <<1>>
    ELSE IF ion.id % 3 = 1 THEN <<-2, -1>>
    ELSE IF ion.id % 3 = 2 THEN <<1>>
    ELSE <<-1>>

\* Ion._nightingale_function is set for every third ion
HasNightingale(ion) == ion.kind = "ion" /\ ion.id % 3 = 0

\* Ion.nightingale_data['min'], ['max']
NightingaleData == [min |-> 20, max |-> 30]

\* Ion._nightingale_function(T): zero for a non-mobile ion
NightingaleFunction(ion, T) == IF immobile = <<ion, 1>> THEN 0 ELSE 2 * T

\* Ion.reference_mobility: signed as the valence, zero when non-mobile
ReferenceMobility(ion) ==
    [j \in 1..Len(Valence(ion)) |->
        IF immobile = <<ion, j>> THEN 0 ELSE 10 * Valence(ion)[j]]

\* constants.reference_temperature
reference_temperature == 25

\* Solvent.viscosity(T): positive, decreasing with the temperature
Viscosity(T) == IF T <= reference_temperature THEN 2 ELSE 1

Sign(x) == IF x > 0 THEN 1 ELSE IF x < 0 THEN -1 ELSE 0

\* Ion._resolve_context: an argument given is kept, a missing one comes
\* from the enclosing Solution, and from a default outside any Solution
ResolveContext(pH, I, T) ==
    [pH |-> IF pH # <<>> THEN pH
            ELSE IF context # <<>> THEN <<context[1].pH>> ELSE <<>>,
     ionic_strength |->
            IF I # <<>> THEN I[1]
            ELSE IF context # <<>> THEN context[1].ionic_strength ELSE 0,
     temperature |->
            IF T # <<>> THEN T[1]
            ELSE IF context # <<>> THEN context[1].temperature
            ELSE reference_temperature]

TemperatureWarning == "Temperature outside range for nightingale data."

FallbackWarning ==
    "Insufficient information for Onsager-Fuoss correction to mobility."

\* absolute_mobility, lines 48-68
AbsoluteMobility(ion, T) ==
    LET temperature == ResolveContext(<<>>, <<>>, T).temperature
    IN  IF HasNightingale(ion)
        THEN [value |->
                [j \in 1..Len(Valence(ion)) |->
                    (NightingaleFunction(ion, temperature)
                        \div Viscosity(temperature)) * Valence(ion)[j]],
              warnings |->
                IF ~(NightingaleData.min < temperature
                        /\ temperature < NightingaleData.max)
                THEN <<TemperatureWarning>> ELSE <<>>]
        ELSE [value |->
                [j \in 1..Len(Valence(ion)) |->
                    (Viscosity(reference_temperature)
                        * ReferenceMobility(ion)[j]) \div Viscosity(temperature)],
              warnings |-> <<>>]

\* robinson_stokes_mobility, lines 71-99
RobinsonStokesMobility(ion, I, T) ==
    LET r   == ResolveContext(<<>>, I, T)
        abs == AbsoluteMobility(ion, <<r.temperature>>)
    IN  [kind |-> "ok",
         value |->
            [j \in 1..Len(Valence(ion)) |->
                [formula |-> "robinson_stokes",
                 mobility |-> abs.value[j],
                 sign |-> Sign(Valence(ion)[j]),
                 ionic_strength |-> r.ionic_strength,
                 temperature |-> r.temperature]],
         warnings |-> abs.warnings,
         ensemble |-> <<>>]

RECURSIVE Concatenate(_)
\* np.concatenate of a list of vectors
Concatenate(vs) ==
    IF vs = <<>> THEN <<>> ELSE Head(vs) \o Concatenate(Tail(vs))

\* list.index(x): position of the first element equal to x, from 0
IndexOf(l, x) == Min({k \in 1..Len(l) : l[k] = x}) - 1

\* Solution.concentration(ion) of an ion of the Solution's list
Concentration(sol, e) == sol.concentrations[IndexOf(sol.ions, e) + 1]

\* PositiveConcentration with >= 0 in place of > 0
NonNegativeConcentration(e) == Concentration(context[1], e) >= 0

\* _interaction, line 133: self.concentration(ion_) > 0
PositiveConcentration(e) == Concentration(context[1], e) > 0

\* Ensemble with a missing querying ion put first instead of last
EnsembleQueryFirst(ion) ==
    LET ions == SelectSeq(context[1].ions, PositiveConcentration)
                    \o <<Hydroxide, Hydronium>>
    IN  IF ion \notin SeqRange(ions) THEN <<ion>> \o ions ELSE ions

\* _interaction, lines 133-137: the ensemble
Ensemble(ion) ==
    LET ions == SelectSeq(context[1].ions, PositiveConcentration)
                    \o <<Hydroxide, Hydronium>>
    IN  IF ion \notin SeqRange(ions) THEN ions \o <<ion>> ELSE ions

\* StartIndex counting the ions before the querying ion, not their valences
StartIndexByIons(ions, ion) == IndexOf(ions, ion)

\* _interaction, lines 138-143
StartIndex(ions, ion) ==
    LET ion_index == IndexOf(ions, ion)
    IN  IF ion_index # 0
        THEN Len(Concatenate([k \in 1..ion_index |-> Valence(ions[k])]))
        ELSE 0

\* _interaction, line 144
EndIndex(ions, ion) == StartIndex(ions, ion) + Len(Valence(ion))

\* _interaction, lines 146-147: omega, each entry the pair of its numerator
\* and of its denominator up to the positive factor faraday
Omega(ions) ==
    Concatenate([k \in 1..Len(ions) |->
        [j \in 1..Len(Valence(ions[k])) |->
            <<AbsoluteMobility(ions[k], <<>>).value[j], Valence(ions[k])[j]>>]])

\* _interaction, lines 153-171: factor has one entry per entry of omega, the
\* entry at a position being the correction of the charge state whose
\* valence, concentration and omega stand at that position
Factor(ions) ==
    Concatenate([k \in 1..Len(ions) |->
        [j \in 1..Len(Valence(ions[k])) |-> [ion |-> ions[k], state |-> j]]])

\* a[start:end] of Python
Slice(a, start, end) == SubSeq(a, start + 1, Min({end, Len(a)}))

\* _interaction, lines 126-173, called as _interaction(self.context(), ion)
Interaction(ion) ==
    IF context = <<>>
    THEN [kind |-> "AttributeError", value |-> <<>>, warnings |-> <<>>,
          ensemble |-> <<>>]
    ELSE LET ions  == Ensemble(ion)
             omega == Omega(ions)
             warns == Concatenate([k \in 1..Len(ions) |->
                            AbsoluteMobility(ions[k], <<>>).warnings])
         IN  IF \E k \in 1..Len(omega) : omega[k][1] = 0
             THEN [kind |-> "RuntimeError", value |-> <<>>,
                   warnings |-> warns, ensemble |-> ions]
             ELSE [kind |-> "ok",
                   value |-> Slice(Factor(ions), StartIndex(ions, ion),
                                   EndIndex(ions, ion)),
                   warnings |-> warns, ensemble |-> ions]

\* onsager_fuoss_mobility, lines 102-123
OnsagerFuossMobility(ion) ==
    LET r           == ResolveContext(<<>>, <<>>, <<>>)
        interaction == Interaction(ion)
        abs         == AbsoluteMobility(ion, <<>>)
    IN  IF interaction.kind # "ok" THEN interaction
        ELSE [kind |-> "ok",
              value |->
                 [j \in 1..Len(Valence(ion)) |->
                    [formula |-> "onsager_fuoss",
                     mobility |-> abs.value[j],
                     interaction |-> interaction.value[j],
                     valence |-> Valence(ion)[j],
                     ionic_strength |-> r.ionic_strength,
                     temperature |-> r.temperature]],
              warnings |-> interaction.warnings \o abs.warnings,
              ensemble |-> interaction.ensemble]

\* ActualMobility calling robinson_stokes_mobility without its arguments
ActualMobilityNoArgs(ion, I, T) ==
    LET of == OnsagerFuossMobility(ion)
        rs == RobinsonStokesMobility(ion, <<>>, <<>>)
    IN  IF of.kind = "AttributeError"
        THEN [rs EXCEPT !.warnings = of.warnings \o <<FallbackWarning>> \o @]
        ELSE of

\* ActualMobility catching every exception, not AttributeError alone
ActualMobilityCatchAll(ion, I, T) ==
    LET of == OnsagerFuossMobility(ion)
        rs == RobinsonStokesMobility(ion, I, T)
    IN  IF of.kind # "ok"
        THEN [rs EXCEPT !.warnings = of.warnings \o <<FallbackWarning>> \o @]
        ELSE of

\* actual_mobility, lines 38-45: only AttributeError is caught
ActualMobility(ion, I, T) ==
    LET of == OnsagerFuossMobility(ion)
        rs == RobinsonStokesMobility(ion, I, T)
    IN  IF of.kind = "AttributeError"
        THEN [rs EXCEPT !.warnings = of.warnings \o <<FallbackWarning>> \o @]
        ELSE of

\* mobility, lines 9-35
Mobility(ion, pH, I, T) ==
    LET r      == ResolveContext(pH, I, T)
        actual == ActualMobility(ion, <<r.ionic_strength>>, <<r.temperature>>)
    IN  IF actual.kind # "ok" THEN actual
        ELSE [actual EXCEPT !.value =
                [formula |-> "effective",
                 ionization_fraction |->
                    <<r.pH, r.ionic_strength, r.temperature>>,
                 actual_mobility |-> actual.value]]

Returns(api, ion, pH, I, T, result) ==
    /\ pc = "start"
    /\ call' = [api |-> api, ion |-> ion, pH |-> pH, I |-> I, T |-> T]
    /\ ret' = result
    /\ pc' = IF result.kind = "ok" THEN "returned" ELSE "raised"
    /\ UNCHANGED <<calcVars, context, immobile>>

IonicStrengths == {<<>>, <<1>>}

Temperatures == {<<>>, <<40>>}

PHs == {<<>>, <<7>>}

CallMobility ==
    \E ion \in AllIons, pH \in PHs, I \in IonicStrengths, T \in Temperatures :
        /\ pH # <<>> \/ context # <<>>
        /\ Returns("mobility", ion, pH, I, T, Mobility(ion, pH, I, T))

CallActualMobility ==
    \E ion \in AllIons, I \in IonicStrengths, T \in Temperatures :
        Returns("actual_mobility", ion, <<>>, I, T, ActualMobility(ion, I, T))

CallAbsoluteMobility ==
    \E ion \in AllIons, T \in Temperatures :
        Returns("absolute_mobility", ion, <<>>, <<>>, T,
                [kind |-> "ok", ensemble |-> <<>>]
                    @@ AbsoluteMobility(ion, T))

CallRobinsonStokesMobility ==
    \E ion \in AllIons, I \in IonicStrengths, T \in Temperatures :
        Returns("robinson_stokes_mobility", ion, <<>>, I, T,
                RobinsonStokesMobility(ion, I, T))

CallOnsagerFuossMobility ==
    \E ion \in AllIons :
        Returns("onsager_fuoss_mobility", ion, <<>>, <<>>, <<>>,
                OnsagerFuossMobility(ion))

\* _interaction(self.context(), ion), as onsager_fuoss_mobility calls it
CallInteraction ==
    \E ion \in AllIons :
        Returns("_interaction", ion, <<>>, <<>>, <<>>, Interaction(ion))

\* the Solutions of n distinct ions, each with a concentration
IsContext(c, n) ==
    \E io \in [1..n -> UserIons], co \in [1..n -> {0, 1}] :
        /\ \A i, j \in 1..n : i # j => io[i] # io[j]
        /\ c = <<[ions |-> io, concentrations |-> co, pH |-> 7,
                  ionic_strength |-> 4, temperature |-> 25]>>

InitMob ==
    /\ pc = "start"
    /\ obj = [ions |-> <<>>, concentrations |-> <<>>, Kw |-> 0]
    /\ P = <<>>
    /\ Q = <<>>
    /\ poly = <<>>
    /\ roo = <<>>
    /\ cH = <<0, 0>>
    /\ context = <<>> \/ \E n \in 0..NumUserIons : IsContext(context, n)
    /\ immobile = <<>>
         \/ \E e \in AllIons : \E j \in 1..Len(Valence(e)) : immobile = <<e, j>>
    /\ call = [api |-> "none"]
    /\ ret = [kind |-> "none"]

NextMob ==
    \/ CallMobility
    \/ CallActualMobility
    \/ CallAbsoluteMobility
    \/ CallRobinsonStokesMobility
    \/ CallOnsagerFuossMobility
    \/ CallInteraction

SpecMob == InitMob /\ [][NextMob]_vars

----------------------------------------------------------------------------
(* Properties of the mobility functions *)

Count(l, x) == Cardinality({k \in 1..Len(l) : l[k] = x})

\* C1: for an ion outside any Solution (no interaction data),
\* actual_mobility(I, T) returns, emits the fallback diagnostic once, and its
\* value is the value of robinson_stokes_mobility(I, T) for the same I, T.
C1_Fallback ==
    (call.api = "actual_mobility" /\ context = <<>>) =>
        /\ pc = "returned"
        /\ ret.value = RobinsonStokesMobility(call.ion, call.I, call.T).value
        /\ \A j \in 1..Len(ret.value) :
                ret.value[j].formula = "robinson_stokes"
        /\ Count(ret.warnings, FallbackWarning) = 1

C1_Witness ==
    /\ call.api = "actual_mobility"
    /\ context = <<>>
    /\ pc = "returned"
    /\ call.I # <<>>
    /\ call.T # <<>>
    /\ Count(ret.warnings, FallbackWarning) = 1

\* the ions the interaction correction of the querying ion is computed over
Members(ion) ==
    {e \in SeqRange(context[1].ions) : Concentration(context[1], e) > 0}
        \cup {Hydroxide, Hydronium, ion}

\* C2: when a charge state of a member of the ensemble is non-mobile, the
\* divergence error reaches the caller of onsager_fuoss_mobility,
\* actual_mobility and mobility; no value is returned in its place.
C2_Divergence ==
    (/\ call.api \in {"onsager_fuoss_mobility", "actual_mobility", "mobility"}
     /\ context # <<>>
     /\ immobile # <<>>
     /\ immobile[1] \in Members(call.ion)) =>
        pc = "raised" /\ ret.kind = "RuntimeError"

C2_Witness ==
    /\ call.api = "actual_mobility"
    /\ context # <<>>
    /\ immobile # <<>>
    /\ immobile[1] \in Members(call.ion)
    /\ immobile[1] # call.ion
    /\ pc = "raised"
    /\ ret.kind = "RuntimeError"

\* C3: a Solution ion of concentration 0 other than the querying ion is not
\* in the ensemble; every Solution ion of positive concentration is, in the
\* order of the Solution.
C3_Ensemble ==
    (call.api = "_interaction" /\ context # <<>>) =>
        LET sol == context[1]
            ens == ret.ensemble
        IN  /\ \A i \in 1..Len(sol.ions) :
                    (sol.concentrations[i] = 0 /\ sol.ions[i] # call.ion)
                        => sol.ions[i] \notin SeqRange(ens)
            /\ \A i \in 1..Len(sol.ions) :
                    sol.concentrations[i] > 0
                        => Count(ens, sol.ions[i]) = 1
            /\ \A i, j \in 1..Len(sol.ions) :
                    (i < j /\ sol.concentrations[i] > 0
                           /\ sol.concentrations[j] > 0)
                        => IndexOf(ens, sol.ions[i]) < IndexOf(ens, sol.ions[j])

C3_Witness ==
    /\ call.api = "_interaction"
    /\ context # <<>>
    /\ \E i, j \in 1..Len(context[1].ions) :
        /\ context[1].concentrations[i] = 0
        /\ context[1].concentrations[j] > 0
        /\ call.ion = context[1].ions[j]
        /\ context[1].ions[i] \notin SeqRange(ret.ensemble)
        /\ call.ion \in SeqRange(ret.ensemble)

\* C7 as stated: hydronium and hydroxide are the last two entries of every
\* ensemble.
C7_SolventIonsLast ==
    (call.api = "_interaction" /\ context # <<>>) =>
        LET ens == ret.ensemble
        IN  {ens[Len(ens) - 1], ens[Len(ens)]} = {Hydroxide, Hydronium}

\* C7 amended: hydronium and hydroxide are the last two entries of the
\* ensemble, except when the querying ion is not a member already (it has
\* concentration 0 or is not in the Solution): the querying ion is then the
\* last entry and hydronium and hydroxide are the two entries before it.
C7_SolventIonsLastOrBeforeQuery ==
    (call.api = "_interaction" /\ context # <<>>) =>
        LET ens == ret.ensemble
            n   == Len(ens)
            own == {e \in SeqRange(context[1].ions) :
                        Concentration(context[1], e) > 0}
                    \cup {Hydroxide, Hydronium}
        IN  IF call.ion \in own
            THEN {ens[n - 1], ens[n]} = {Hydroxide, Hydronium}
            ELSE /\ n >= 3
                 /\ ens[n] = call.ion
                 /\ {ens[n - 2], ens[n - 1]} = {Hydroxide, Hydronium}

C7_Witness ==
    /\ call.api = "_interaction"
    /\ context # <<>>
    /\ Len(context[1].ions) >= 2
    /\ call.ion \in SeqRange(context[1].ions)
    /\ Concentration(context[1], call.ion) = 0
    /\ ret.ensemble[Len(ret.ensemble)] = call.ion
    /\ ret.ensemble[Len(ret.ensemble) - 1] = Hydronium

====
